---- MODULE Spec2Model ----
(***************************************************************************)
(* VideoGrabberBot: the download task queue (bot/services/queue.py), the   *)
(* URL storage (bot/services/storage.py) and the chat handlers that drive  *)
(* them (bot/handlers).                                                    *)
(*                                                                         *)
(* DownloadQueue runs inside one asyncio event loop.  A coroutine keeps    *)
(* the loop until it awaits something that really suspends, so the steps   *)
(* of this model are the code between two suspension points:               *)
(*   - `async with self._lock` never suspends: no holder of the lock       *)
(*     awaits anything that suspends, so the lock is always free (the      *)
(*     fast path of asyncio.Lock.acquire returns without yielding);        *)
(*   - `await queue.put(..)` on an unbounded asyncio.Queue and             *)
(*     `await queue.get()` on a queue just seen non-empty return without   *)
(*     yielding;                                                           *)
(*   - asyncio.create_task only schedules the worker: it runs its first    *)
(*     step later, after any coroutine that is already ready;              *)
(*   - `await self._process_single_task()` (the download) suspends.        *)
(* Hence add_task and clear_user_tasks are one step each, and the worker   *)
(* takes one step from its creation to its first download and one step     *)
(* from the end of a download to the next download or to its return.       *)
(* The methods of UrlStorage are plain `def`s: each call is one step.      *)
(***************************************************************************)
EXTENDS Naturals, Sequences, FiniteSets

\* Bounds of the model.
MaxTasks == 3
NumChats == 2
NumUrls == 2
\* config.TTL_SECONDS (default 3600) and config.MAX_STORAGE_SIZE (default
\* 1000), scaled down.
TTL_SECONDS == 1
MAX_STORAGE_SIZE == 1

Chats == 1..NumChats
Urls == 1..NumUrls
TaskIds == 1..MaxTasks

VARIABLES
    queue,          \* self.queue: the items of the asyncio.Queue, head first
    unfinished,     \* self.queue._unfinished_tasks of that queue object
    queue_items,    \* self._queue_items
    is_processing,  \* self.is_processing
    current_task,   \* self.current_task (NoTask for None)
    workers,        \* every worker coroutine created so far: [pc, task]
    worker_task,    \* self._worker_task: index into workers, 0 for None
    next_id,        \* number of add_task calls so far (identity of the tasks)
    handed,         \* ids handed to the orchestrator, in order
    result,         \* id -> "none" | "ok" | "err": how its download ended
    removed,        \* ids taken out of the queue by clear_user_tasks
    last,           \* the last step: its operation, its argument, its return value
    data,           \* url_storage._data: the dict's items in dict order
    now,            \* time.time()
    clast,          \* the last storage call that writes: operation, key, return
    sel,            \* the process_format_selection call in progress: pc, chat, url_id, url
    task_token,     \* task id -> additional_data["url_id"] of the task (0: none)
    sent,           \* what the last handler step sent: handler, chat, number, texts
    parsed,         \* one _parse_callback_data call: its inputs, its return value
    dl,             \* one download_youtube_video call: its position and its effects
    inv             \* one invite code: its row, the users table, the write lock, the use_invite calls

queueVars == <<queue, unfinished, queue_items, is_processing, current_task,
               workers, worker_task, next_id, handed, result, removed, last>>

cacheVars == <<data, now, clast>>

flowVars == <<sel, task_token, sent>>

callVars == <<parsed, dl, inv>>

vars == <<queueVars, cacheVars, flowVars, callVars>>

\* DownloadTask: `id` is the identity of the object; chat_id and url are the
\* fields the queue reads.  The other fields are taken as equal between tasks.
DownloadTask(id, chat_id, url) ==
    [id |-> id, chat_id |-> chat_id, url |-> url]

\* None, as a value of the same shape.
NoTask == [id |-> 0, chat_id |-> 0, url |-> 0]

\* dataclass equality (__eq__ compares the fields, not the identity).
TaskEq(a, b) == a.chat_id = b.chat_id /\ a.url = b.url

Min(S) == CHOOSE x \in S : \A y \in S : x <= y

Ids(s) == {s[i].id : i \in DOMAIN s}

\* The most use_invite calls on the code.
NumCalls == 3

Calls == 1..NumCalls

\* create_invite has stored the code: the row is active and unused, no user
\* has been added, no connection holds the write lock of the database, and
\* no use_invite call has begun.
NewInvite ==
    [used_by |-> 0, is_active |-> TRUE, users |-> {}, lock |-> 0,
     calls |-> [c \in Calls |-> [pc |-> "idle", ret |-> "none"]]]

\* No _parse_callback_data call is under way.
NotParsed == [format_id |-> <<>>, url_id |-> <<>>, done |-> FALSE, out |-> <<>>]

\* download_youtube_video has not been called.
NoDownload ==
    [pc |-> "idle", task_status_message_id |-> 0, status_message_id |-> 0,
     dir |-> FALSE, timed_out |-> FALSE,
     invoked |-> <<>>, expected |-> 0, engine |-> "none", written |-> <<>>,
     files |-> <<>>, thread |-> "none", error |-> "none", messages |-> <<>>,
     edits |-> <<>>, admin |-> 0, documents |-> 0, delivered |-> FALSE,
     raised |-> "none"]

\* DownloadQueue.__init__, UrlStorage.__init__ and the handlers at rest.
InitServices ==
    /\ queue = <<>>
    /\ unfinished = 0
    /\ queue_items = <<>>
    /\ is_processing = FALSE
    /\ current_task = NoTask
    /\ workers = <<>>
    /\ worker_task = 0
    /\ next_id = 0
    /\ handed = <<>>
    /\ result = [i \in TaskIds |-> "none"]
    /\ removed = {}
    /\ last = [op |-> "none", arg |-> 0, ret |-> 0]
    /\ data = <<>>
    /\ now = 0
    /\ clast = [op |-> "none", key |-> 0, ok |-> FALSE]
    /\ sel = [pc |-> "idle", chat |-> 0, url_id |-> 0, url |-> 0]
    /\ task_token = [i \in TaskIds |-> 0]
    /\ sent = [handler |-> "none", chat |-> 0, n |-> <<>>, texts |-> <<>>]
    /\ dl = NoDownload
    /\ inv = NewInvite

\* The state after construction.
Init == InitServices /\ parsed = NotParsed

\* Mutant: a worker is started by every add_task.
WorkerNotRunning_Always(wt, ws) == TRUE

\* Mutant: the `.done()` test is missing.
WorkerNotRunning_NoneOnly(wt, ws) == wt = 0

\* `self._worker_task is None or self._worker_task.done()`
WorkerNotRunning(wt, ws) ==
    wt = 0 \/ ws[wt].pc \in {"done", "failed"}

\* Mutant: the size is read before the append.
QueueSize_BeforeAppend(items) == Len(items) - 1

\* `queue_size = len(self._queue_items)` after the append
QueueSize(items) == Len(items)

\* add_task(task): put, append, position; start a worker when none is running.
add_task(chat_id, url) ==
    /\ next_id < MaxTasks
    /\ LET task == DownloadTask(next_id + 1, chat_id, url)
           items == Append(queue_items, task)
       IN /\ queue' = Append(queue, task)
          /\ unfinished' = unfinished + 1
          /\ queue_items' = items
          /\ next_id' = next_id + 1
          /\ last' = [op |-> "add", arg |-> next_id + 1, ret |-> QueueSize(items)]
    /\ IF WorkerNotRunning(worker_task, workers)
       THEN /\ workers' = Append(workers, [pc |-> "created", task |-> NoTask])
            /\ worker_task' = Len(workers) + 1
       ELSE UNCHANGED <<workers, worker_task>>
    /\ UNCHANGED <<is_processing, current_task, handed, result, removed>>

\* Mutant: the index is returned 0-based.
get_queue_position_ZeroBased(chat_id, url) ==
    LET hits == {i \in DOMAIN queue_items :
                    queue_items[i].chat_id = chat_id /\ queue_items[i].url = url}
    IN IF hits = {} THEN 0 ELSE Min(hits) - 1

\* get_queue_position(chat_id, url): 1-based index of the first match, 0 for None.
get_queue_position(chat_id, url) ==
    LET hits == {i \in DOMAIN queue_items :
                    queue_items[i].chat_id = chat_id /\ queue_items[i].url = url}
    IN IF hits = {} THEN 0 ELSE Min(hits)

\* Mutant: the task being processed counts as well.
is_user_in_queue_WithCurrent(chat_id) ==
    \/ \E i \in DOMAIN queue_items : queue_items[i].chat_id = chat_id
    \/ current_task.chat_id = chat_id

\* is_user_in_queue(chat_id)
is_user_in_queue(chat_id) ==
    \E i \in DOMAIN queue_items : queue_items[i].chat_id = chat_id

\* Mutant: the comparison is inverted.
KeepTask_Inverted(task, chat_id) == task.chat_id = chat_id

\* The test of clear_user_tasks' loop: the task stays in the new queue.
KeepTask(task, chat_id) == task.chat_id # chat_id

\* clear_user_tasks(chat_id): rebuild queue and _queue_items from _queue_items.
clear_user_tasks(chat_id) ==
    /\ IF queue_items = <<>>
       THEN /\ last' = [op |-> "clear", arg |-> chat_id, ret |-> 0]
            /\ UNCHANGED <<queue, unfinished, queue_items, removed>>
       ELSE LET keep(t) == KeepTask(t, chat_id)
                new_queue_items == SelectSeq(queue_items, keep)
                removed_count == Len(queue_items) - Len(new_queue_items)
            IN /\ queue' = new_queue_items
               /\ unfinished' = Len(new_queue_items)
               /\ queue_items' = new_queue_items
               /\ removed' = removed \cup (Ids(queue) \ Ids(new_queue_items))
               /\ last' = [op |-> "clear", arg |-> chat_id, ret |-> removed_count]
    /\ UNCHANGED <<is_processing, current_task, workers, worker_task,
                   next_id, handed, result>>

\* Mutant: the queue hands out its newest item.
QueueGet_Lifo(q) == q[Len(q)]

\* `self.queue.get()`: the item the queue hands out.
QueueGet(q) == Head(q)

\* Mutant: the popped task stays in the tracking list.
RemoveTracked_Skip(items, task) == items

\* `if current_task in items: items.remove(current_task)`: drop the first equal item.
RemoveTracked(items, task) ==
    LET hits == {i \in DOMAIN items : TaskEq(items[i], task)}
    IN IF hits = {} THEN items
       ELSE [j \in 1..(Len(items) - 1) |->
                IF j < Min(hits) THEN items[j] ELSE items[j + 1]]

\* Mutant: the counter test is off by one.
TaskDoneRaises_OffByOne(n) == n <= 1

\* `self.queue.task_done()` raises ValueError when the counter is not positive.
TaskDoneRaises(n) == n <= 0

\* The head of the `while not self.queue.empty()` loop for worker w, entered with
\* current_task = cur: either pop the next task and start its download, or
\* set is_processing = False and return.
LoopHead(w, cur) ==
    IF queue = <<>>
    THEN /\ is_processing' = FALSE
         /\ current_task' = cur
         /\ workers' = [workers EXCEPT ![w] = [pc |-> "done", task |-> NoTask]]
         /\ UNCHANGED <<queue, queue_items, handed>>
    ELSE LET task == QueueGet(queue)
         IN /\ is_processing' = TRUE
            /\ current_task' = task
            /\ queue' = SelectSeq(queue, LAMBDA t : t.id # task.id)
            /\ queue_items' = RemoveTracked(queue_items, task)
            /\ workers' = [workers EXCEPT ![w] = [pc |-> "running", task |-> task]]
            /\ handed' = Append(handed, task.id)

\* First step of a worker created by add_task.
_process_queue(w) ==
    /\ workers[w].pc = "created"
    /\ LoopHead(w, current_task)
    /\ last' = [op |-> "start", arg |-> w, ret |-> 0]
    /\ UNCHANGED <<unfinished, worker_task, next_id, result, removed>>

\* The download of worker w's task ends with `outcome`; then the finally block
\* (task_done, current_task = None) and the loop head.
TaskEnds(w, outcome) ==
    /\ workers[w].pc = "running"
    /\ result' = [result EXCEPT ![workers[w].task.id] = outcome]
    /\ last' = [op |-> outcome, arg |-> workers[w].task.id, ret |-> 0]
    /\ IF TaskDoneRaises(unfinished)
       THEN /\ workers' = [workers EXCEPT ![w] = [pc |-> "failed", task |-> NoTask]]
            /\ UNCHANGED <<queue, unfinished, queue_items, is_processing,
                           current_task, handed>>
       ELSE /\ unfinished' = unfinished - 1
            /\ LoopHead(w, NoTask)
    /\ UNCHANGED <<worker_task, next_id, removed>>

\* _process_single_task returns normally.
TaskSucceeds(w) == TaskEnds(w, "ok")

\* _process_single_task raises; `except Exception` logs it.
TaskFails(w) == TaskEnds(w, "err")

AddNext == (\E c \in Chats, u \in Urls : add_task(c, u)) /\ UNCHANGED <<cacheVars, flowVars, callVars>>
ClearNext == (\E c \in Chats : clear_user_tasks(c)) /\ UNCHANGED <<cacheVars, flowVars, callVars>>
StartNext == (\E w \in DOMAIN workers : _process_queue(w)) /\ UNCHANGED <<cacheVars, flowVars, callVars>>
SucceedNext == (\E w \in DOMAIN workers : TaskSucceeds(w)) /\ UNCHANGED <<cacheVars, flowVars, callVars>>
FailNext == (\E w \in DOMAIN workers : TaskFails(w)) /\ UNCHANGED <<cacheVars, flowVars, callVars>>
WorkerNext == StartNext \/ SucceedNext \/ FailNext

Next == AddNext \/ ClearNext \/ StartNext \/ SucceedNext \/ FailNext

Spec == Init /\ [][Next]_vars

\* The event loop runs every scheduled coroutine and every download ends
\* (download_youtube_video runs the engine under a timeout).
FairSpec == Spec /\ WF_vars(WorkerNext)

\* Producers only enqueue; nobody cancels.
NextEnqueue == AddNext \/ StartNext \/ SucceedNext \/ FailNext

SpecEnqueue == Init /\ [][NextEnqueue]_vars /\ WF_vars(WorkerNext)

TypeOK ==
    /\ unfinished \in Nat
    /\ is_processing \in BOOLEAN
    /\ worker_task \in 0..Len(workers)
    /\ next_id \in 0..MaxTasks
    /\ Ids(queue) \subseteq 1..next_id

(***************************************************************************)
(* The URL storage (bot/services/storage.py).                              *)
(*                                                                         *)
(* _data is a dict {url_id: (url, format_id, timestamp)}; it is kept here  *)
(* as the sequence of its items in dict order, which is what sorted() in   *)
(* _enforce_size_limit sees.  An Optional[str] is a sequence of length at  *)
(* most one: <<>> is None.  The url 0 is the empty string.  time.time() is *)
(* a clock that never goes back.                                           *)
(***************************************************************************)

\* The values str(uuid.uuid4())[:8] can take.
Tokens == 1..(MAX_STORAGE_SIZE + 1)

\* The urls given to store_url: the empty string (0) and another one (1).
StoredUrls == {0, 1}

\* Format ids of bot/services/formats.py.
FormatIds == {"video:HD", "audio:MP3"}

MaxTime == TTL_SECONDS + 1

Keys(d) == {d[i].key : i \in DOMAIN d}

\* self._data.get(url_id): <<>> for None, else the entry.
DictGet(d, url_id) ==
    IF url_id \in Keys(d)
    THEN <<d[CHOOSE i \in DOMAIN d : d[i].key = url_id]>>
    ELSE <<>>

\* self._data[url_id] = entry: in place for a key of the dict, else at the end.
DictSet(d, entry) ==
    IF entry.key \in Keys(d)
    THEN [i \in DOMAIN d |-> IF d[i].key = entry.key THEN entry ELSE d[i]]
    ELSE Append(d, entry)

\* self._data.pop(url_id, None)
DictPop(d, url_id) == SelectSeq(d, LAMBDA e : e.key # url_id)

\* Mutant: nothing ever expires.
IsExpired_Never(timestamp, current_time) == FALSE

\* `current_time - timestamp > config.TTL_SECONDS`
IsExpired(timestamp, current_time) ==
    current_time - timestamp > TTL_SECONDS

\* _cleanup_expired_entries at time current_time
_cleanup_expired_entries(d, current_time) ==
    SelectSeq(d, LAMBDA e : ~IsExpired(e.timestamp, current_time))

\* sorted(items, key=timestamp, reverse=True): newest first, equal timestamps
\* in dict order (the sort is stable).
SortedNewestFirst(d) ==
    LET rank(i) == 1 + Cardinality({j \in DOMAIN d : d[j].timestamp > d[i].timestamp})
                     + Cardinality({j \in DOMAIN d : j < i /\ d[j].timestamp = d[i].timestamp})
    IN [p \in DOMAIN d |-> d[CHOOSE i \in DOMAIN d : rank(i) = p]]

\* _enforce_size_limit: keep the MAX_STORAGE_SIZE newest entries.
_enforce_size_limit(d) ==
    IF Len(d) <= MAX_STORAGE_SIZE
    THEN d
    ELSE SubSeq(SortedNewestFirst(d), 1, MAX_STORAGE_SIZE)

\* `(url, None, time.time())` under the key url_id
NewEntry(url_id, url, current_time) ==
    [key |-> url_id, url |-> url, format_id |-> <<>>, timestamp |-> current_time]

\* store_url(url), uuid4 giving url_id.
store_url(url, url_id) ==
    /\ data' = DictSet(_enforce_size_limit(_cleanup_expired_entries(data, now)),
                       NewEntry(url_id, url, now))
    /\ clast' = [op |-> "store_url", key |-> url_id, ok |-> TRUE]
    /\ UNCHANGED now

\* Mutant: an empty value is taken for a missing one (`if value` instead of
\* isinstance(value, str)).
_get_storage_data_Falsy(d, url_id, index) ==
    LET storage_data == DictGet(d, url_id)
    IN IF storage_data = <<>> THEN <<>>
       ELSE IF index = 0
            THEN (IF storage_data[1].url = 0 THEN <<>> ELSE <<storage_data[1].url>>)
            ELSE storage_data[1].format_id

\* _get_storage_data(url_id, index) on the swept dict d: what it returns.
_get_storage_data(d, url_id, index) ==
    LET storage_data == DictGet(d, url_id)
    IN IF storage_data = <<>> THEN <<>>
       ELSE IF index = 0 THEN <<storage_data[1].url>>
       ELSE storage_data[1].format_id

\* The dict as the sweep of a call made now leaves it.
Swept == _cleanup_expired_entries(data, now)

\* What get_url(url_id) returns when it is called on the dict d at the time
\* current_time.
get_url_at(d, current_time, url_id) ==
    _get_storage_data(_cleanup_expired_entries(d, current_time), url_id, 0)

\* What get_format(url_id) returns when it is called on the dict d at the time
\* current_time.
get_format_at(d, current_time, url_id) ==
    _get_storage_data(_cleanup_expired_entries(d, current_time), url_id, 1)

\* What get_url(url_id) returns when it is called in this state.
get_url_result(url_id) == get_url_at(data, now, url_id)

\* What get_format(url_id) returns when it is called in this state.
get_format_result(url_id) == get_format_at(data, now, url_id)

\* get_url(url_id): the sweep is all it changes.
get_url(url_id) ==
    /\ data' = Swept
    /\ UNCHANGED <<now, clast>>

\* get_format(url_id): the sweep is all it changes.
get_format(url_id) ==
    /\ data' = Swept
    /\ UNCHANGED <<now, clast>>

\* Mutant: the entry's timestamp is renewed.
WithFormat_Touch(entry, format_id, current_time) ==
    [entry EXCEPT !.format_id = <<format_id>>, !.timestamp = current_time]

\* `(url, format_id, timestamp)`: the entry with its format replaced.
WithFormat(entry, format_id, current_time) ==
    [entry EXCEPT !.format_id = <<format_id>>]

\* Mutant: store_format creates the entry it does not find.
store_format_Upsert(url_id, format_id) ==
    /\ data' = DictSet(Swept, [key |-> url_id, url |-> 0,
                               format_id |-> <<format_id>>, timestamp |-> now])
    /\ clast' = [op |-> "store_format", key |-> url_id, ok |-> TRUE]
    /\ UNCHANGED now

\* store_format(url_id, format_id)
store_format(url_id, format_id) ==
    LET existing_data == DictGet(Swept, url_id)
    IN /\ IF existing_data = <<>>
          THEN /\ data' = Swept
               /\ clast' = [op |-> "store_format", key |-> url_id, ok |-> FALSE]
          ELSE /\ data' = DictSet(Swept, WithFormat(existing_data[1], format_id, now))
               /\ clast' = [op |-> "store_format", key |-> url_id, ok |-> TRUE]
       /\ UNCHANGED now

\* Mutant: the whole dict is cleared.
DictPop_All(d, url_id) == <<>>

\* The deletion clear_url performs.
ClearUrlPop(d, url_id) == DictPop(d, url_id)

\* clear_url(url_id)
clear_url(url_id) ==
    /\ data' = ClearUrlPop(data, url_id)
    /\ clast' = [op |-> "clear_url", key |-> url_id, ok |-> TRUE]
    /\ UNCHANGED now

\* Time passes.
Tick ==
    /\ now < MaxTime
    /\ now' = now + 1
    /\ UNCHANGED <<data, clast>>

StoreUrlNext == (\E u \in StoredUrls, t \in Tokens : store_url(u, t)) /\ UNCHANGED <<queueVars, flowVars, callVars>>
GetUrlNext == (\E t \in Tokens : get_url(t)) /\ UNCHANGED <<queueVars, flowVars, callVars>>
GetFormatNext == (\E t \in Tokens : get_format(t)) /\ UNCHANGED <<queueVars, flowVars, callVars>>
StoreFormatNext == (\E t \in Tokens, f \in FormatIds : store_format(t, f)) /\ UNCHANGED <<queueVars, flowVars, callVars>>
ClearUrlNext == (\E t \in Tokens : clear_url(t)) /\ UNCHANGED <<queueVars, flowVars, callVars>>
TickNext == Tick /\ UNCHANGED <<queueVars, flowVars, callVars>>

NextCache ==
    StoreUrlNext \/ GetUrlNext \/ GetFormatNext \/ StoreFormatNext \/ ClearUrlNext \/ TickNext

SpecCache == Init /\ [][NextCache]_vars

(***************************************************************************)
(* The chat handlers (bot/handlers/download.py, bot/handlers/commands.py). *)
(*                                                                         *)
(* A handler is a coroutine: it keeps the event loop between two awaits    *)
(* that suspend (the database query of is_user_authorized, a call of the   *)
(* Telegram API).  A step of a handler is the code between two such        *)
(* awaits; the message an await sends belongs to the step that ends with   *)
(* it.  A user's id is the id of the user's private chat.  At most one    *)
(* process_format_selection call is in progress at a time.                 *)
(***************************************************************************)

\* The rows of the users table with is_active = TRUE.
AuthorizedUsers == {1}

\* The links users send: 1 is a YouTube link, 2 is a link to another site.
\* A link is kept as the sequence of the pieces of its text.
MsgUrls == {1, 2}

LinkText(url) ==
    IF url = 1 THEN <<"https://", "www.", "YouTube.com", "/watch?v=1">>
    ELSE IF url = 2 THEN <<"https://", "example.com", "/v">>
    ELSE <<>>

\* str.lower() on a piece of a link.
Lower(piece) ==
    IF piece = "YouTube.com" THEN "youtube.com" ELSE piece

youtube_domains ==
    {"youtube.com", "youtu.be", "m.youtube.com", "youtube-nocookie.com"}

\* is_youtube_url(url): some domain occurs in the lower-cased text.
is_youtube_url(url) ==
    \E i \in DOMAIN LinkText(url) : Lower(LinkText(url)[i]) \in youtube_domains

\* is_user_authorized(user_id): the row exists; False when the query fails.
is_user_authorized(user_id, db_ok) ==
    db_ok /\ user_id \in AuthorizedUsers

\* The users that write to the bot: 1 is authorized, 2 is not.
Users == {1, 2}

\* Tasks the handlers enqueue in a run of the model.
MaxFlowTasks == 2

\* n is the number a text reports, as a sequence: <<>> when it reports none.
Sent(handler, chat, n, texts) ==
    [handler |-> handler, chat |-> chat, n |-> n, texts |-> texts]

NoSelection == [pc |-> "idle", chat |-> 0, url_id |-> 0, url |-> 0]

\* Mutant: the link is examined before the sender.
ProcessUrlBranch_LinkFirst(authorized, youtube) ==
    IF ~youtube THEN "unsupported"
    ELSE IF ~authorized THEN "denied"
    ELSE "store"

\* The branch process_url takes.
ProcessUrlBranch(authorized, youtube) ==
    IF ~authorized THEN "denied"
    ELSE IF youtube THEN "store"
    ELSE "unsupported"

\* process_url(message) from user_id with the text url, from the return of
\* is_user_authorized on.
process_url(user_id, url, db_ok) ==
    LET branch == ProcessUrlBranch(is_user_authorized(user_id, db_ok),
                                   is_youtube_url(url))
    IN /\ IF branch = "denied"
          THEN /\ sent' = Sent("process_url", user_id, <<>>, <<"Access Denied">>)
               /\ UNCHANGED cacheVars
          ELSE IF branch = "store"
          THEN /\ sent' = Sent("process_url", user_id, <<>>,
                               <<"Choose Download Format">>)
               /\ \E url_id \in Tokens : store_url(url, url_id)
          ELSE /\ sent' = Sent("process_url", user_id, <<>>, <<"Unsupported URL">>)
               /\ UNCHANGED cacheVars
       /\ UNCHANGED <<queueVars, sel, task_token>>

\* Format ids a callback carries: one of FormatIds and an unknown one.
CallbackFormats == {"video:HD", "video:4K"}

\* get_format_by_id(format_id) finds the format.
get_format_by_id(format_id) == format_id \in FormatIds

\* A text is a sequence of symbols; ":" is the separator symbol and every
\* other symbol stands for a run of characters without ':'.
FormatText(format_id) ==
    IF format_id = "video:HD" THEN <<"video", ":", "HD">>
    ELSE IF format_id = "video:4K" THEN <<"video", ":", "4K">>
    ELSE IF format_id = "audio:MP3" THEN <<"audio", ":", "MP3">>
    ELSE <<>>

\* The text of a cache token: hexadecimal digits, never a ':'.
TokenText(url_id) == [i \in 1..url_id |-> "a"]

\* _create_format_keyboard: callback_data = f"fmt:{format_id}:{url_id}".
CallbackData(format_text, token_text) ==
    <<"fmt", ":">> \o format_text \o <<":">> \o token_text

\* str.split(":"): the parts between the separators, empty parts included.
RECURSIVE Split(_)
Split(text) ==
    IF text = <<>> THEN << <<>> >>
    ELSE LET rest == Split(Tail(text))
         IN IF Head(text) = ":"
            THEN << <<>> >> \o rest
            ELSE << <<Head(text)>> \o rest[1] >> \o Tail(rest)

\* ":".join(parts).
RECURSIVE Join(_)
Join(parts) ==
    IF parts = <<>> THEN <<>>
    ELSE IF Len(parts) = 1 THEN parts[1]
    ELSE parts[1] \o <<":">> \o Join(Tail(parts))

\* A mutant that accepts callback data of two parts.
TooFewParts_Two(parts) == Len(parts) < 2

\* "if len(parts) < 3": the parts _parse_callback_data refuses.
TooFewParts(parts) == Len(parts) < 3

\* The middle parts of a mutant that keeps only the first of them.
MiddleParts_First(parts) == SubSeq(parts, 2, 2)

\* parts[1:-1].
MiddleParts(parts) == SubSeq(parts, 2, Len(parts) - 1)

\* _parse_callback_data(callback_data): <<cmd, format_id, url_id>>, or <<>>
\* where the code raises ValueError.
_parse_callback_data(callback_data) ==
    LET parts == Split(callback_data)
    IN IF TooFewParts(parts) THEN <<>>
       ELSE <<parts[1], Join(MiddleParts(parts)), parts[Len(parts)]>>

\* The cache key a token text names; 0, the key of no entry, for any other text.
TokenNamed(token_text) ==
    IF \E t \in Tokens : TokenText(t) = token_text
    THEN CHOOSE t \in Tokens : TokenText(t) = token_text
    ELSE 0

\* The format id a text spells; "" for a text that spells none.
FormatNamed(format_text) ==
    IF \E f \in FormatIds \cup CallbackFormats : FormatText(f) = format_text
    THEN CHOOSE f \in FormatIds \cup CallbackFormats : FormatText(f) = format_text
    ELSE ""

\* A mutant of _get_url_and_format that looks the format up first.
SelectBranch_FormatFirst(url, known) ==
    IF ~known THEN "no_format"
    ELSE IF url = <<>> \/ url = <<0>> THEN "no_url"
    ELSE "download"

\* _get_url_and_format: the token is looked up first ("if not url"), then
\* the format.
SelectBranch(url, known) ==
    IF url = <<>> \/ url = <<0>> THEN "no_url"
    ELSE IF ~known THEN "no_format"
    ELSE "download"

\* process_format_selection(callback) for well-formed callback data, up to
\* the await of callback.answer: get_url, get_format_by_id, store_format.
SelectBegin(chat_id, url_id, format_id) ==
    /\ sel.pc = "idle"
    /\ next_id < MaxFlowTasks
    /\ LET url == get_url_result(url_id)
           branch == SelectBranch(url, get_format_by_id(format_id))
       IN IF branch = "no_url"
          THEN /\ get_url(url_id)
               /\ sent' = Sent("process_format_selection", chat_id, <<>>,
                               <<"URL not found or expired">>)
               /\ UNCHANGED sel
          ELSE IF branch = "no_format"
          THEN /\ get_url(url_id)
               /\ sent' = Sent("process_format_selection", chat_id, <<>>,
                               <<"Selected format not found">>)
               /\ UNCHANGED sel
          ELSE /\ store_format(url_id, format_id)
               /\ sent' = Sent("process_format_selection", chat_id, <<>>,
                               <<"Processing your request">>)
               /\ sel' = [pc |-> "answered", chat |-> chat_id,
                          url_id |-> url_id, url |-> url[1]]
    /\ UNCHANGED <<queueVars, task_token>>

\* The callback data the router hands to process_format_selection (they
\* start with "fmt:"): the buttons of the keyboards and two short payloads.
CallbackPayloads ==
    {CallbackData(FormatText(f), TokenText(t)) : f \in CallbackFormats, t \in Tokens}
        \cup {<<"fmt", ":">>, <<"fmt", ":", "HD">>}

\* process_format_selection(callback): _validate_callback_data answers
\* "Invalid format selection" and the handler returns, or the parsed values
\* go on to _get_url_and_format.
process_format_selection(chat_id, callback_data) ==
    LET parsed_data == _parse_callback_data(callback_data)
    IN IF parsed_data = <<>>
       THEN /\ sel.pc = "idle"
            /\ next_id < MaxFlowTasks
            /\ sent' = Sent("process_format_selection", chat_id, <<>>,
                            <<"Invalid format selection">>)
            /\ UNCHANGED <<queueVars, cacheVars, sel, task_token>>
       ELSE SelectBegin(chat_id, TokenNamed(parsed_data[3]),
                        FormatNamed(parsed_data[2]))

\* _build_status_message: the part that depends on the queue.
_build_status_message(processing, user_in_queue) ==
    IF processing
    THEN (IF user_in_queue THEN "queued: you already have downloads in the queue"
          ELSE "queued: you will be notified")
    ELSE "Starting download now..."

\* _process_download_request from the return of callback.answer to the await
\* of edit_text: the queue status is read and the status message is sent.
SelectStatus(chat_id) ==
    /\ sel.pc = "answered"
    /\ sel.chat = chat_id
    /\ sel' = [sel EXCEPT !.pc = "edited"]
    /\ sent' = Sent("process_format_selection", chat_id, <<>>,
                    <<_build_status_message(is_processing, is_user_in_queue(chat_id))>>)
    /\ UNCHANGED <<queueVars, cacheVars, task_token>>

\* _process_download_request from the return of edit_text on: the task is
\* built with additional_data["url_id"] and added; the position is sent when
\* it is over 1.
SelectEnqueue(chat_id) ==
    /\ sel.pc = "edited"
    /\ sel.chat = chat_id
    /\ add_task(chat_id, sel.url)
    /\ task_token' = [task_token EXCEPT ![next_id + 1] = sel.url_id]
    /\ sel' = NoSelection
    /\ sent' = IF QueueSize(queue_items') > 1
               THEN Sent("process_format_selection", chat_id,
                         <<QueueSize(queue_items')>>, <<"Queue position">>)
               ELSE Sent("process_format_selection", chat_id, <<>>, <<>>)
    /\ UNCHANGED cacheVars

\* command_cancel(message) from user_id, from the return of
\* is_user_authorized on.  clear_user_tasks is a coroutine function and is
\* called without await: the call makes a coroutine object and runs nothing
\* of its body, and the reply formats that object (<<>> in arg) where a
\* number was meant.
command_cancel(user_id, db_ok) ==
    /\ IF ~is_user_authorized(user_id, db_ok)
       THEN sent' = Sent("command_cancel", user_id, <<>>, <<"Access Restricted">>)
       ELSE IF ~is_user_in_queue(user_id)
       THEN sent' = Sent("command_cancel", user_id, <<>>, <<"No Active Downloads">>)
       ELSE sent' = Sent("command_cancel", user_id, <<>>, <<"Downloads Cancelled">>)
    /\ UNCHANGED <<queueVars, cacheVars, sel, task_token>>

ProcessUrlNext ==
    /\ \E c \in Users, u \in MsgUrls, ok \in BOOLEAN : process_url(c, u, ok)
    /\ UNCHANGED callVars
SelectBeginNext ==
    /\ \E c \in Users, d \in CallbackPayloads : process_format_selection(c, d)
    /\ UNCHANGED callVars
SelectStatusNext == (\E c \in Users : SelectStatus(c)) /\ UNCHANGED callVars
SelectEnqueueNext == (\E c \in Users : SelectEnqueue(c)) /\ UNCHANGED callVars
CancelNext ==
    (\E c \in Users, ok \in BOOLEAN : command_cancel(c, ok)) /\ UNCHANGED callVars

NextFlow ==
    \/ ProcessUrlNext \/ SelectBeginNext \/ SelectStatusNext \/ SelectEnqueueNext
    \/ CancelNext \/ StartNext \/ SucceedNext \/ FailNext

SpecFlow == Init /\ [][NextFlow]_vars

\* One format selection is followed through its steps while other handlers
\* reach their own add_task call (download.py:218) and the worker runs.
NextRace ==
    \/ ProcessUrlNext \/ SelectBeginNext \/ SelectStatusNext \/ SelectEnqueueNext
    \/ AddNext \/ StartNext \/ SucceedNext

SpecRace == Init /\ [][NextRace]_vars

\* The handlers that take messages and callbacks in, without the worker.
NextIntake ==
    ProcessUrlNext \/ SelectBeginNext \/ SelectStatusNext \/ SelectEnqueueNext

SpecIntake == Init /\ [][NextIntake]_vars

\* Links and format selections arrive while the clock of the storage
\* advances; the selection that passes both lookups stays in progress.
NextSelect == ProcessUrlNext \/ SelectBeginNext \/ TickNext

SpecSelect == Init /\ [][NextSelect]_vars

(***************************************************************************)
(* _parse_callback_data as a function of the format id and the token the   *)
(* keyboard puts into a button.                                            *)
(***************************************************************************)

\* The longest format id and token that are tried.
MaxTextLen == 3

\* The texts of at most n symbols over an alphabet.
Texts(alphabet, n) == UNION {[1..k -> alphabet] : k \in 0..n}

\* Format ids: any text, ':' included.
FormatTexts == Texts({"video", "HD", ":"}, MaxTextLen)

\* Cache tokens: texts without ':'.
TokenTexts == Texts({"a", "b"}, MaxTextLen)

\* A button is about to be built from a format id and a token.
InitParse ==
    /\ InitServices
    /\ \E f \in FormatTexts, t \in TokenTexts :
           parsed = [format_id |-> f, url_id |-> t, done |-> FALSE, out |-> <<>>]

\* The button is built by _create_format_keyboard and its callback data is
\* parsed by _parse_callback_data.
ParseButton ==
    /\ ~parsed.done
    /\ parsed' = [parsed EXCEPT
                    !.done = TRUE,
                    !.out = _parse_callback_data(
                                CallbackData(parsed.format_id, parsed.url_id))]
    /\ UNCHANGED <<queueVars, cacheVars, flowVars, dl, inv>>

NextParse == ParseButton

SpecParse == InitParse /\ [][NextParse]_vars

(***************************************************************************)
(* The orchestrator of one download (bot/services/downloader.py).          *)
(*                                                                         *)
(* dl follows one call of download_youtube_video.  Sizes are counted in    *)
(* units; the temporary directory is the sequence of the sizes of its      *)
(* files, in the order glob("*") lists them.  The engine runs in a thread  *)
(* of the executor; wait_for may time out while it runs, and the executor  *)
(* is left only after the thread has ended.  A call to the transport is    *)
(* counted when it is made.                                                *)
(***************************************************************************)

\* config.MAX_FILE_SIZE (default 50 MB) and TELEGRAM_UPLOAD_LIMIT (50 MB),
\* scaled down; MAX_FILE_SIZE is set above the upload limit, as the
\* environment may set it.
MAX_FILE_SIZE == 2
TELEGRAM_UPLOAD_LIMIT == 1

\* The most files the engine leaves in the directory.
MaxFiles == 2

\* Sizes of files, and the expected sizes of video_info (0: no "filesize").
FileSizes == 1..(MAX_FILE_SIZE + 1)
ExpectedSizes == 0..(MAX_FILE_SIZE + 1)

\* What the directory can hold after ydl.download.
Downloads == UNION {[1..k -> FileSizes] : k \in 0..MaxFiles}

\* str(e) of a yt_dlp DownloadError raised by extract_info: the phrases it
\* holds.
InfoErrors ==
    {{"Video unavailable"}, {"not available"}, {"Video Not Found"},
     {"Unsupported URL"}, {"not available", "Unsupported URL"}}

\* str.lower() on the phrases.
LowerPhrase(phrase) ==
    IF phrase = "Video unavailable" THEN "video unavailable"
    ELSE IF phrase = "Video Not Found" THEN "video not found"
    ELSE IF phrase = "Unsupported URL" THEN "unsupported url"
    ELSE phrase

\* Mutant: the phrases of an unsupported link are looked for first.
ClassifyInfoError_UnsupportedFirst(message) ==
    LET error_msg == {LowerPhrase(p) : p \in message}
    IN IF "unsupported url" \in error_msg \/ "unsupported format" \in error_msg
       THEN "UnsupportedFormatError"
       ELSE IF "not available" \in error_msg \/ "video not found" \in error_msg
       THEN "VideoNotFoundError"
       ELSE "NetworkError"

\* The except branch of extract_info: the kind chosen from str(e).lower().
ClassifyInfoError(message) ==
    LET error_msg == {LowerPhrase(p) : p \in message}
    IN IF "not available" \in error_msg \/ "video not found" \in error_msg
       THEN "VideoNotFoundError"
       ELSE IF "unsupported url" \in error_msg \/ "unsupported format" \in error_msg
       THEN "UnsupportedFormatError"
       ELSE "NetworkError"

\* Mutant: the size check accepts nothing at the limit.
TooLarge_AtLimit(file_size) == file_size >= MAX_FILE_SIZE

\* _validate_file_size: "if file_size > config.MAX_FILE_SIZE".
TooLarge(file_size) == file_size > MAX_FILE_SIZE

\* Mutant: the expected size is never looked at.
ExpectedKnown_Never(expected_size) == FALSE

\* "if video_info and video_info.get('filesize')".
ExpectedKnown(expected_size) == expected_size # 0

\* Where _download_video_file leaves the call once the thread has ended
\* with `outcome`: a timeout of wait_for is a NetworkError whatever the
\* thread did.
AfterThread(d, outcome) ==
    IF d.timed_out
    THEN [d EXCEPT !.thread = outcome, !.error = "NetworkError", !.pc = "error"]
    ELSE IF outcome # "ok"
    THEN [d EXCEPT !.thread = outcome, !.error = outcome, !.pc = "error"]
    ELSE [d EXCEPT !.thread = outcome, !.pc = "send"]

\* Mutant: the directory is removed only after a return.
AfterCall_OnReturn(raised) == IF raised = "returned" THEN "cleanup" ELSE "done"

\* The finally clause of download_youtube_video: _cleanup_temp_directory
\* runs however the try statement is left.
AfterCall(raised) == "cleanup"

\* download_youtube_video(bot, chat_id, url, ...): tempfile.mkdtemp.
download_youtube_video(status_message_id) ==
    /\ dl.pc = "idle"
    /\ dl' = [dl EXCEPT !.pc = "status", !.dir = TRUE,
                        !.status_message_id = status_message_id]

\* _create_or_update_status_message: the message is edited when an id was
\* given and sent otherwise; the call to the transport may raise.
_create_or_update_status_message(ok) ==
    /\ dl.pc = "status"
    /\ dl' = IF ~ok
             THEN [dl EXCEPT !.error = "Exception", !.pc = "error"]
             ELSE IF dl.status_message_id # 0
             THEN [dl EXCEPT !.edits = Append(@, "Download started"),
                             !.pc = "extract"]
             ELSE [dl EXCEPT !.messages = Append(@, "Download started"),
                             !.pc = "extract"]

\* asyncio.wait_for gives up while the thread runs.
Timeout ==
    /\ dl.pc \in {"extract", "download"}
    /\ ~dl.timed_out
    /\ dl' = [dl EXCEPT !.timed_out = TRUE]

\* _sync_download_video_file, first part: ydl.extract_info and the check of
\* the expected size.  `outcome` is "ok", "crash" (an exception that is not
\* the engine's DownloadError) or "DownloadError" with the message of the
\* engine's error.
ExtractInfo(outcome, message, expected_size) ==
    /\ dl.pc = "extract"
    /\ LET d == [dl EXCEPT !.invoked = Append(@, "extract_info")]
       IN dl' = IF outcome = "crash" THEN AfterThread(d, "DownloadError")
                ELSE IF outcome = "DownloadError"
                THEN AfterThread(d, ClassifyInfoError(message))
                ELSE IF ExpectedKnown(expected_size) /\ TooLarge(expected_size)
                THEN AfterThread([d EXCEPT !.expected = expected_size],
                                 "VideoTooLargeError")
                ELSE [d EXCEPT !.expected = expected_size, !.pc = "download"]

\* _sync_download_video_file, second part: ydl.download, the listing of the
\* directory and the check of the size of downloaded_files[0].
EngineDownload(outcome, written) ==
    /\ dl.pc = "download"
    /\ LET d == [dl EXCEPT !.invoked = Append(@, "download"),
                           !.engine = outcome,
                           !.written = written,
                           !.files = written]
       IN dl' = IF outcome = "crash" THEN AfterThread(d, "DownloadError")
                ELSE IF outcome = "DownloadError" THEN AfterThread(d, "NetworkError")
                ELSE IF written = <<>> THEN AfterThread(d, "DownloadError")
                ELSE IF TooLarge(written[1])
                THEN AfterThread([d EXCEPT !.files = Tail(written)],
                                 "VideoTooLargeError")
                ELSE AfterThread(d, "ok")

\* The outcomes of bot.send_document.
UploadOutcomes == {"ok", "TelegramEntityTooLarge", "Entity Too Large", "other"}

\* _send_downloaded_file: the status message is edited, a file over the
\* upload limit is reported by another edit, and send_document is called
\* otherwise.
_send_downloaded_file(outcome) ==
    /\ dl.pc = "send"
    /\ LET d == [dl EXCEPT !.edits = Append(@, "Now sending file...")]
       IN dl' = IF d.files[1] > TELEGRAM_UPLOAD_LIMIT
                THEN [d EXCEPT !.edits = Append(@, "File Too Large"),
                               !.raised = "returned",
                               !.pc = AfterCall("returned")]
                ELSE IF outcome = "ok"
                THEN [d EXCEPT !.documents = @ + 1,
                               !.delivered = TRUE,
                               !.edits = Append(@, "File sent successfully!"),
                               !.raised = "returned",
                               !.pc = AfterCall("returned")]
                ELSE IF outcome \in {"TelegramEntityTooLarge", "Entity Too Large"}
                THEN [d EXCEPT !.documents = @ + 1,
                               !.edits = Append(@, "Upload Failed"),
                               !.raised = "returned",
                               !.pc = AfterCall("returned")]
                ELSE [d EXCEPT !.documents = @ + 1,
                               !.error = "Exception",
                               !.pc = "error"]

\* _handle_download_error: the user_message of each kind of error.
UserMessage(error) ==
    IF error = "VideoNotFoundError" THEN "Video Not Found"
    ELSE IF error = "VideoTooLargeError" THEN "File Too Large"
    ELSE IF error = "UnsupportedFormatError" THEN "Unsupported Format"
    ELSE IF error = "NetworkError" THEN "Network Error"
    ELSE IF error = "TelegramEntityTooLarge" THEN "File Too Large for Upload"
    ELSE "Download Failed"

\* Mutant: the user is told twice.
ErrorNotice_Twice(error) == <<UserMessage(error), UserMessage(error)>>

\* "await bot.send_message(chat_id, user_message)": the calls it makes.
ErrorNotice(error) == <<UserMessage(error)>>

\* The except clause of download_youtube_video: _handle_download_error
\* tells the user, then the operator, and DownloadError is raised; when the
\* message to the user raises, that exception leaves the call instead.
_handle_download_error(send_ok) ==
    /\ dl.pc = "error"
    /\ dl' = IF send_ok
             THEN [dl EXCEPT !.messages = @ \o ErrorNotice(dl.error),
                             !.admin = @ + 1,
                             !.raised = "DownloadError",
                             !.pc = AfterCall("DownloadError")]
             ELSE [dl EXCEPT !.messages = @ \o ErrorNotice(dl.error),
                             !.raised = "Exception",
                             !.pc = AfterCall("Exception")]

\* _cleanup_temp_directory: shutil.rmtree of the directory.
_cleanup_temp_directory ==
    /\ dl.pc = "cleanup"
    /\ dl' = [dl EXCEPT !.dir = FALSE, !.files = <<>>, !.pc = "done"]

DownloadRest == UNCHANGED <<queueVars, cacheVars, flowVars, parsed, inv>>

DownloadStartNext ==
    (\E id \in {0, 1} : download_youtube_video(id)) /\ DownloadRest
StatusNext ==
    (\E ok \in BOOLEAN : _create_or_update_status_message(ok)) /\ DownloadRest
TimeoutNext == Timeout /\ DownloadRest
ExtractNext ==
    /\ \E outcome \in {"ok", "crash", "DownloadError"}, m \in InfoErrors,
          e \in ExpectedSizes :
           ExtractInfo(outcome, m, e)
    /\ DownloadRest
EngineDownloadNext ==
    /\ \E outcome \in {"ok", "crash", "DownloadError"}, w \in Downloads :
           EngineDownload(outcome, w)
    /\ DownloadRest
SendNext == (\E outcome \in UploadOutcomes : _send_downloaded_file(outcome)) /\ DownloadRest
HandleErrorNext == (\E ok \in BOOLEAN : _handle_download_error(ok)) /\ DownloadRest
CleanupNext == _cleanup_temp_directory /\ DownloadRest

NextDownload ==
    \/ DownloadStartNext \/ StatusNext \/ TimeoutNext \/ ExtractNext
    \/ EngineDownloadNext \/ SendNext \/ HandleErrorNext \/ CleanupNext

SpecDownload == Init /\ [][NextDownload]_vars

\* The status_message_id that _process_single_task hands to
\* download_youtube_video for a task: the call names bot, chat_id, url and
\* format_string only, so the parameter keeps its default, None.
StatusArgument(task_status_message_id) == 0

\* DownloadQueue._process_single_task for a task with the given
\* status_message_id (0: None): download_youtube_video is called.
_process_single_task(task_status_message_id) ==
    /\ dl.pc = "idle"
    /\ dl' = [dl EXCEPT
                !.task_status_message_id = task_status_message_id,
                !.pc = "status",
                !.dir = TRUE,
                !.status_message_id = StatusArgument(task_status_message_id)]

ProcessTaskNext == (\E id \in {0, 1} : _process_single_task(id)) /\ DownloadRest

\* One task of the queue, from the worker's call to the end of the download.
NextTask ==
    \/ ProcessTaskNext \/ StatusNext \/ TimeoutNext \/ ExtractNext
    \/ EngineDownloadNext \/ SendNext \/ HandleErrorNext \/ CleanupNext

SpecTask == Init /\ [][NextTask]_vars

(***************************************************************************)
(* Invites (bot/utils/db.py).                                              *)
(*                                                                         *)
(* inv follows the use_invite calls on one code; call c is made by user c. *)
(* Every call works on a connection of its own.  A SELECT reads what has   *)
(* been committed.  sqlite3 begins a transaction before an UPDATE or an    *)
(* INSERT and the statement takes the write lock of the database, which    *)
(* the connection keeps until it commits or closes; a statement that finds *)
(* the lock held by another connection waits for it and raises "database   *)
(* is locked" when the wait is over.                                       *)
(***************************************************************************)

\* A statement of a connection can write: no connection holds the lock.
CanWrite(lock) == lock = 0

\* use_invite: "SELECT id FROM invites WHERE id = ? AND is_active = TRUE AND
\* used_by IS NULL", and "return False" when there is no such row.
use_invite_select(c) ==
    /\ inv.calls[c].pc = "idle"
    /\ inv' = IF inv.is_active /\ inv.used_by = 0
              THEN [inv EXCEPT !.calls[c].pc = "found"]
              ELSE [inv EXCEPT !.calls[c] = [pc |-> "returned", ret |-> "False"]]

\* use_invite: "UPDATE invites SET used_by = ?, used_at = ?, is_active =
\* FALSE WHERE id = ?" once the write lock is free.
use_invite_update(c) ==
    /\ inv.calls[c].pc = "found"
    /\ CanWrite(inv.lock)
    /\ inv' = [inv EXCEPT !.lock = c, !.calls[c].pc = "updated"]

\* use_invite: the UPDATE has waited for the lock in vain; the except
\* clause returns False.
use_invite_locked(c) ==
    /\ inv.calls[c].pc = "found"
    /\ ~CanWrite(inv.lock)
    /\ inv' = [inv EXCEPT !.calls[c] = [pc |-> "returned", ret |-> "False"]]

\* use_invite: "await add_user(user_id, added_by=0)".  add_user opens a
\* connection of its own; its INSERT raises when the lock is held, add_user
\* returns False and use_invite does not look at what it returns.
use_invite_add_user(c) ==
    /\ inv.calls[c].pc = "updated"
    /\ inv' = IF CanWrite(inv.lock)
              THEN [inv EXCEPT !.users = @ \cup {c}, !.calls[c].pc = "added"]
              ELSE [inv EXCEPT !.calls[c].pc = "added"]

\* use_invite: "await db.commit()" and "return True".
use_invite_commit(c) ==
    /\ inv.calls[c].pc = "added"
    /\ inv' = [inv EXCEPT !.used_by = c, !.is_active = FALSE, !.lock = 0,
                          !.calls[c] = [pc |-> "returned", ret |-> "True"]]

InviteRest == UNCHANGED <<queueVars, cacheVars, flowVars, parsed, dl>>

InviteSelectNext == (\E c \in Calls : use_invite_select(c)) /\ InviteRest
InviteUpdateNext == (\E c \in Calls : use_invite_update(c)) /\ InviteRest
InviteLockedNext == (\E c \in Calls : use_invite_locked(c)) /\ InviteRest
InviteAddUserNext == (\E c \in Calls : use_invite_add_user(c)) /\ InviteRest
InviteCommitNext == (\E c \in Calls : use_invite_commit(c)) /\ InviteRest

NextInvite ==
    \/ InviteSelectNext \/ InviteUpdateNext \/ InviteLockedNext
    \/ InviteAddUserNext \/ InviteCommitNext

SpecInvite == Init /\ [][NextInvite]_vars

(***************************************************************************)
(* Properties of the queue.                                                *)
(***************************************************************************)

\* Worker coroutines that exist and have not ended.
LiveWorkers == {w \in DOMAIN workers : workers[w].pc \in {"created", "running"}}

\* Tasks whose download has started and not ended.
InFlight == {workers[w].task.id : w \in {v \in DOMAIN workers : workers[v].pc = "running"}}

HandedSet == {handed[i] : i \in DOMAIN handed}

Idle ==
    /\ is_processing = FALSE
    /\ queue = <<>>
    /\ queue_items = <<>>
    /\ current_task = NoTask
    /\ LiveWorkers = {}

\* C1: at most one worker loop is active at any time, and every task given to
\* add_task is pending, removed by clear_user_tasks, or handed to the
\* orchestrator exactly once; a task whose download ended (also with an error)
\* is never pending or handed again.
C1_OneWorkerEachTaskOnce ==
    /\ Cardinality(LiveWorkers) <= 1
    /\ \A i, j \in DOMAIN handed : i # j => handed[i] # handed[j]
    /\ \A id \in 1..next_id :
          /\ id \in Ids(queue) \cup removed \cup HandedSet
          /\ ~(id \in Ids(queue) /\ id \in HandedSet)
          /\ ~(id \in removed /\ id \in HandedSet)
          /\ ~(id \in Ids(queue) /\ id \in removed)
    /\ \A id \in HandedSet : result[id] = "none" <=> id \in InFlight
    /\ \A id \in TaskIds : result[id] # "none" => id \in HandedSet

\* Three tasks went through one worker, one of them failing.
C1_Witness ==
    /\ Len(handed) = 3
    /\ Len(workers) = 1
    /\ \E id \in TaskIds : result[id] = "err"
    /\ \E id \in TaskIds : result[id] = "ok"

\* C2: tasks are handed to the orchestrator in the order add_task accepted them,
\* and when a task is handed over every earlier task has finished or was
\* removed by clear_user_tasks.
C2_Fifo ==
    /\ \A i, j \in DOMAIN handed : i < j => handed[i] < handed[j]
    /\ \A b \in InFlight : \A a \in 1..(b - 1) :
          a \in removed \/ result[a] # "none"
    /\ \A p \in Ids(queue) : \A h \in HandedSet : h < p

\* The second task is in flight after the first one ended, a third is pending.
C2_Witness ==
    /\ Len(handed) = 2
    /\ result[handed[1]] # "none"
    /\ InFlight = {handed[2]}
    /\ queue # <<>>
    /\ removed = {}

\* C3: without cancellations, the worker eventually stops and stays stopped with
\* is_processing false, nothing pending and current_task None.
C3_DrainsToIdle == <>[]Idle

\* All accepted tasks are done, with a success and a failure, and the queue is idle.
C3_Witness ==
    /\ Idle
    /\ next_id >= 2
    /\ \A id \in 1..next_id : result[id] # "none"
    /\ \E id \in TaskIds : result[id] = "err"
    /\ \E id \in TaskIds : result[id] = "ok"

\* C4: after a task's download has raised, the worker loop goes on: it has not
\* ended with an exception, the failed task is no longer current_task, and the
\* worker is either on the next pending task or has returned with
\* is_processing false and current_task None.
C4_FailureIsolated ==
    last.op = "err" =>
        /\ \A w \in DOMAIN workers : workers[w].pc # "failed"
        /\ current_task.id # last.arg
        /\ \/ current_task # NoTask /\ is_processing /\ current_task.id \in InFlight
           \/ current_task = NoTask /\ ~is_processing /\ queue = <<>>

\* C5: clear_user_tasks(chat_id) removes exactly the pending tasks of chat_id,
\* returns their number, keeps the others in order and leaves current_task and
\* the worker alone.
C5_ClearScoped ==
    [][last'.op = "clear" =>
        LET c == last'.arg
            other(t) == t.chat_id # c
        IN /\ queue' = SelectSeq(queue, other)
           /\ queue_items' = SelectSeq(queue_items, other)
           /\ last'.ret = Cardinality({i \in DOMAIN queue : queue[i].chat_id = c})
           /\ current_task' = current_task
           /\ workers' = workers
           /\ is_processing' = is_processing]_vars

\* A cancellation removed tasks of the chat whose task is in flight and kept another chat's.
C5_Witness ==
    /\ last.op = "clear"
    /\ last.ret >= 1
    /\ current_task.chat_id = last.arg
    /\ queue_items # <<>>

\* C6: the in-flight task is not part of the pending view: it is neither in
\* _queue_items nor in the queue, so get_queue_position and is_user_in_queue
\* answer from other tasks only and clear_user_tasks cannot count it or put it
\* back.
C6_PoppedNotPending ==
    /\ \A id \in InFlight : id \notin Ids(queue_items) /\ id \notin Ids(queue)
    /\ \A id \in HandedSet : id \notin Ids(queue_items) /\ id \notin Ids(queue)
    /\ \A c \in Chats : is_user_in_queue(c) =>
          \E i \in DOMAIN queue_items :
             queue_items[i].chat_id = c /\ queue_items[i].id \notin InFlight
    /\ \A c \in Chats, u \in Urls : get_queue_position(c, u) # 0 =>
          queue_items[get_queue_position(c, u)].id \notin InFlight

\* A cancellation for another chat ran while a task was in flight; the chat of
\* the in-flight task has nothing pending.
C6_Witness ==
    /\ last.op = "clear"
    /\ last.ret >= 1
    /\ current_task # NoTask
    /\ current_task.id \in InFlight
    /\ current_task.chat_id # last.arg
    /\ ~is_user_in_queue(current_task.chat_id)
    /\ get_queue_position(current_task.chat_id, current_task.url) = 0

\* Every task accepted so far has been removed by clear_user_tasks or
\* processed to its end.
AllSettled == \A id \in 1..next_id : id \in removed \/ result[id] # "none"

\* C7: no wake-up is lost: an add_task called while no worker is running starts
\* one, pending tasks always have a worker that is alive, and every accepted
\* task is eventually removed by clear_user_tasks or processed to its end
\* (a settled task stays settled and tasks are accepted finitely often, so
\* this is: from some point on every accepted task is settled).
C7_NoLostWakeup ==
    /\ [][(next_id' = next_id + 1 /\ LiveWorkers = {}) => LiveWorkers' # {}]_vars
    /\ [](queue # <<>> => LiveWorkers # {})
    /\ <>[]AllSettled

\* A second worker, started by an add_task after the first worker had ended, is
\* processing a task.
C7_Witness ==
    /\ Len(workers) >= 2
    /\ workers[1].pc = "done"
    /\ workers[2].pc = "running"
    /\ workers[2].task.id \in InFlight

\* C8: the position add_task returns is the 1-based index of the new task in
\* the pending sequence at its insertion: the number of pending tasks
\* including the new one.
C8_PositionAtInsertion ==
    [][next_id' = next_id + 1 =>
        /\ last'.op = "add"
        /\ last'.ret = Len(queue_items) + 1
        /\ last'.ret = Len(queue_items')
        /\ queue_items'[last'.ret].id = next_id'
        /\ queue'[last'.ret].id = next_id']_vars

\* The third task was inserted at position 2 while another task was in flight.
C8_Witness ==
    /\ last.op = "add"
    /\ last.arg = 3
    /\ last.ret = 2
    /\ InFlight # {}

\* C9 as claimed: before any pop and without cancellation, get_queue_position of
\* the k-th enqueued task is k, and None (0) for a pair that is not pending.
C9_PositionIsRank ==
    (handed = <<>> /\ removed = {}) =>
        /\ \A k \in DOMAIN queue_items :
              get_queue_position(queue_items[k].chat_id, queue_items[k].url) = k
        /\ \A c \in Chats, u \in Urls :
              (~\E i \in DOMAIN queue_items : TaskEq(queue_items[i], DownloadTask(0, c, u)))
                 => get_queue_position(c, u) = 0

\* C9 amended: before any pop and without cancellation, the k-th enqueued task
\* is the k-th pending one, and get_queue_position of its (chat_id, url) is the
\* index of the first pending task with that chat_id and url: k when no earlier
\* task has the same pair, less than k otherwise; None (0) for a pair that is
\* not pending.
C9_PositionIsFirstMatch ==
    (handed = <<>> /\ removed = {}) =>
        /\ Len(queue_items) = next_id
        /\ \A k \in DOMAIN queue_items :
              LET t == queue_items[k]
                  p == get_queue_position(t.chat_id, t.url)
              IN /\ t.id = k
                 /\ p \in 1..k
                 /\ TaskEq(queue_items[p], t)
                 /\ \A j \in 1..(p - 1) : ~TaskEq(queue_items[j], t)
                 /\ (\A j \in 1..(k - 1) : ~TaskEq(queue_items[j], t)) => p = k
        /\ \A c \in Chats, u \in Urls :
              (~\E i \in DOMAIN queue_items : TaskEq(queue_items[i], DownloadTask(0, c, u)))
                 => get_queue_position(c, u) = 0

\* Three tasks are pending, nothing popped: the third repeats the first one's
\* chat_id and url, the second differs.
C9_Witness ==
    /\ handed = <<>>
    /\ removed = {}
    /\ Len(queue_items) = 3
    /\ TaskEq(queue_items[1], queue_items[3])
    /\ ~TaskEq(queue_items[1], queue_items[2])
    /\ get_queue_position(queue_items[2].chat_id, queue_items[2].url) = 2

\* C10: current_task is non-null exactly when a task has been popped and its
\* processing has not finished; it is that task; after a task finished, with
\* or without an error, it is not current_task any more.
C10_CurrentTaskIffInFlight ==
    /\ current_task # NoTask <=> InFlight # {}
    /\ current_task # NoTask => current_task.id \in InFlight
    /\ last.op \in {"ok", "err"} => current_task.id # last.arg

\* C11: is_processing is true exactly when a worker loop exists that has not
\* ended (created by add_task and not yet returned or died).
C11_ProcessingIffWorker ==
    is_processing <=> LiveWorkers # {}

(***************************************************************************)
(* Properties of the URL storage.                                          *)
(***************************************************************************)

\* An entry of the dict whose age is over the TTL (it is still in the dict
\* until the next call sweeps it).
Expired(url_id) ==
    \E i \in DOMAIN data :
        data[i].key = url_id /\ now > data[i].timestamp + TTL_SECONDS

\* What store_format(url_id, ..) returns when it is called in this state.
store_format_result(url_id) == DictGet(Swept, url_id) # <<>>

\* A token that does not resolve: get_url and get_format return None and
\* store_format returns False.
NotFound(url_id) ==
    /\ get_url_result(url_id) = <<>>
    /\ get_format_result(url_id) = <<>>
    /\ ~store_format_result(url_id)

\* C12: right after store_url(url) has returned a token, get_url of the token
\* returns url, the empty string included, and get_format of it returns None.
C12_StoreThenGet ==
    [][(clast'.op = "store_url" /\ cacheVars' # cacheVars) =>
         \A u \in StoredUrls :
             (now' = now /\ store_url(u, clast'.key)) =>
                 /\ get_url_at(data', now', clast'.key) = <<u>>
                 /\ get_format_at(data', now', clast'.key) = <<>>]_vars

\* The empty string has just been stored and get_url gives it back.
C12_Witness ==
    /\ clast.op = "store_url"
    /\ \E i \in DOMAIN data :
           data[i] = NewEntry(clast.key, 0, now)
    /\ get_url_result(clast.key) = <<0>>
    /\ get_format_result(clast.key) = <<>>

\* C13 as stated: once an entry has expired, no store_url makes its token
\* resolve again.
C13_ExpiredNeverResolves ==
    [][(clast'.op = "store_url" /\ cacheVars' # cacheVars) =>
         \A u \in StoredUrls :
             (now' = now /\ store_url(u, clast'.key)) =>
                 \A k \in Tokens : Expired(k) => get_url_at(data', now', k) = <<>>]_vars

\* C13: an entry older than the TTL is absent from get_url and get_format and
\* store_format on it returns False; a store_url does not bring it back: a
\* store_url of another token leaves the token unresolved, and a store_url
\* that draws the same token again makes it resolve to the new url, with no
\* format.
C13_ExpiredStaysGone ==
    /\ [](\A k \in Tokens : Expired(k) => NotFound(k))
    /\ [][/\ (clast'.op = "store_format" /\ cacheVars' # cacheVars) =>
               \A k \in Tokens, f \in FormatIds :
                   (k = clast'.key /\ now' = now /\ Expired(k) /\ store_format(k, f)) =>
                       (~clast'.ok /\ k \notin Keys(data'))
          /\ (clast'.op = "store_url" /\ cacheVars' # cacheVars) =>
               \A u \in StoredUrls, t \in Tokens :
                   (t = clast'.key /\ now' = now /\ store_url(u, t)) =>
                       \A k \in Tokens :
                           Expired(k) =>
                               IF k = t
                               THEN DictGet(data', k) = <<NewEntry(t, u, now)>>
                               ELSE get_url_at(data', now', k) = <<>>]_vars

\* An entry older than the TTL is still in the dict and does not resolve.
C13_Witness ==
    \E k \in Tokens : Expired(k) /\ NotFound(k)

\* C14 as stated: after a completed store_url the dict holds at most
\* MAX_STORAGE_SIZE entries.
C14_SizeBounded ==
    clast.op = "store_url" => Len(data) <= MAX_STORAGE_SIZE

\* C15: a token with no entry (never stored, or removed) and a token whose
\* entry has expired get the same answers: get_url and get_format return
\* None, store_format returns False and leaves no entry under the token.
C15_AbsentLikeExpired ==
    /\ [](\A k \in Tokens : (k \notin Keys(data) \/ Expired(k)) => NotFound(k))
    /\ [][(clast'.op = "store_format" /\ cacheVars' # cacheVars) =>
            \A k \in Tokens, f \in FormatIds :
                (/\ k = clast'.key
                 /\ now' = now
                 /\ k \notin Keys(data) \/ Expired(k)
                 /\ store_format(k, f)) =>
                    /\ ~clast'.ok
                    /\ data' = Swept
                    /\ k \notin Keys(data')]_vars

\* store_format has returned False for a token that was removed, while the
\* dict holds another entry, which has expired.
C15_Witness ==
    /\ clast.op = "store_format"
    /\ ~clast.ok
    /\ clast.key \notin Keys(data)
    /\ \E k \in Tokens : Expired(k)

\* C16: clear_url(token) leaves the token not found, changes nothing when the
\* token has no entry (so a second call changes nothing), and leaves every
\* other entry as it was.
C16_ClearLocal ==
    [][(clast'.op = "clear_url" /\ cacheVars' # cacheVars) =>
         \A t \in Tokens :
             (t = clast'.key /\ clear_url(t)) =>
                 /\ t \notin Keys(data')
                 /\ get_url_at(data', now', t) = <<>>
                 /\ (t \notin Keys(data) => data' = data)
                 /\ ClearUrlPop(data', t) = data'
                 /\ \A k \in Tokens \ {t} : DictGet(data', k) = DictGet(data, k)]_vars

\* clear_url has removed a token and another entry is still there.
C16_Witness ==
    /\ clast.op = "clear_url"
    /\ clast.key \notin Keys(data)
    /\ data # <<>>

(***************************************************************************)
(* Properties of the handlers.                                             *)
(***************************************************************************)

\* Pending tasks of a chat.
PendingOf(chat_id) ==
    Cardinality({i \in DOMAIN queue_items : queue_items[i].chat_id = chat_id})

\* C18 as stated: when the worker has finished a task, with or without an
\* error, the storage entry under the token the task carries is gone: get_url
\* of the token returns None.
C18_EntryDiscarded ==
    [][last'.op \in {"ok", "err"} =>
         \A w \in DOMAIN workers, url_id \in Tokens :
             (/\ workers[w].pc = "running"
              /\ task_token[workers[w].task.id] = url_id
              /\ (TaskSucceeds(w) \/ TaskFails(w))) =>
                 get_url_at(data', now', url_id) = <<>>]_vars

\* C19 as stated: after /cancel from an authorized user with k >= 1 pending
\* tasks, none of the user's tasks is pending and the reply reports k.
C19_CancelRemovesAll ==
    [][sent'.handler = "command_cancel" =>
         \A c \in Users :
             (/\ c = sent'.chat
              /\ c \in AuthorizedUsers
              /\ is_user_in_queue(c)
              /\ command_cancel(c, TRUE)) =>
                 /\ ~is_user_in_queue(c)'
                 /\ sent'.texts = <<"Downloads Cancelled">>
                 /\ sent'.n = <<PendingOf(c)>>]_vars

\* C20: process_url changes the storage only for an authorized sender with a
\* YouTube link; a sender who is not authorized gets one message, the access
\* denial, whatever the link is; an authorized sender with another link gets
\* one message, "Unsupported URL"; in both cases the storage and the queue
\* stay as they were.
C20_StoreOnlyAuthorizedYoutube ==
    [][sent'.handler = "process_url" =>
         \A c \in Users, u \in MsgUrls, ok \in BOOLEAN :
             (c = sent'.chat /\ process_url(c, u, ok)) =>
                 /\ queueVars' = queueVars
                 /\ ~is_user_authorized(c, ok) =>
                        (sent'.texts = <<"Access Denied">> /\ cacheVars' = cacheVars)
                 /\ (is_user_authorized(c, ok) /\ ~is_youtube_url(u)) =>
                        (sent'.texts = <<"Unsupported URL">> /\ cacheVars' = cacheVars)
                 /\ cacheVars' # cacheVars =>
                        (is_user_authorized(c, ok) /\ is_youtube_url(u))
                 /\ (is_user_authorized(c, ok) /\ is_youtube_url(u)) =>
                        /\ sent'.texts = <<"Choose Download Format">>
                        /\ get_url_at(data', now', clast'.key) = <<u>>]_vars

\* A user who is not authorized has been denied while the storage holds an
\* entry and a task is pending.
C20_Witness ==
    /\ sent = Sent("process_url", 2, <<>>, <<"Access Denied">>)
    /\ 2 \notin AuthorizedUsers
    /\ data # <<>>
    /\ queue_items # <<>>

(***************************************************************************)
(* Properties of the format-selection callback.                            *)
(***************************************************************************)

\* C21 as stated: a format-selection callback from a user who is not
\* authorized is answered with the access denial and changes nothing else:
\* no status message, no task, no change of the storage.
C21_UnauthorizedSelectionDenied ==
    [][sent'.handler = "process_format_selection" =>
         \A c \in Users \ AuthorizedUsers, d \in CallbackPayloads :
             (c = sent'.chat /\ process_format_selection(c, d)) =>
                 /\ sent'.texts = <<"Access Denied">>
                 /\ queueVars' = queueVars
                 /\ cacheVars' = cacheVars
                 /\ sel' = sel]_vars

\* C22: callback data with fewer than 3 parts is answered once, with
\* "Invalid format selection"; the storage, the selection in progress and the
\* queue stay as they were.
C22_ShortPayloadRejected ==
    [][sent'.handler = "process_format_selection" =>
         \A c \in Users, d \in CallbackPayloads :
             (/\ c = sent'.chat
              /\ Len(Split(d)) < 3
              /\ process_format_selection(c, d)) =>
                 /\ sent'.texts = <<"Invalid format selection">>
                 /\ queueVars' = queueVars
                 /\ cacheVars' = cacheVars
                 /\ sel' = sel
                 /\ task_token' = task_token]_vars

\* A short payload has been rejected while the storage holds an entry.
C22_Witness ==
    /\ sent.handler = "process_format_selection"
    /\ sent.texts = <<"Invalid format selection">>
    /\ data # <<>>

\* C23: for callback data of 3 parts or more, a token that does not resolve
\* gets the one answer "URL not found or expired" whatever the format is, and
\* a token that resolves with an unknown format gets the one answer "Selected
\* format not found"; in both cases no selection goes on to the enqueue.  A
\* selection goes on to the enqueue (the only caller of add_task) only with
\* the url its token resolved to and a known format, and the step of the
\* lookups itself leaves the queue as it was.
C23_TokenThenFormat ==
    [][(sent'.handler = "process_format_selection" /\ now' = now) =>
         \A c \in Users, d \in CallbackPayloads :
             (/\ c = sent'.chat
              /\ Len(Split(d)) >= 3
              /\ process_format_selection(c, d)) =>
                 LET parsed_data == _parse_callback_data(d)
                     url == get_url_result(TokenNamed(parsed_data[3]))
                     known == FormatNamed(parsed_data[2]) \in FormatIds
                 IN /\ queueVars' = queueVars
                    /\ task_token' = task_token
                    /\ url = <<>> =>
                           /\ sent'.texts = <<"URL not found or expired">>
                           /\ sel' = sel
                    /\ (url # <<>> /\ ~known) =>
                           /\ sent'.texts = <<"Selected format not found">>
                           /\ sel' = sel
                    /\ sel' # sel =>
                           /\ url = <<sel'.url>>
                           /\ known
                           /\ sel'.pc = "answered"]_vars

\* The token of an entry that expired has been answered with "URL not found
\* or expired": the lookup swept the entry away.
C23_Witness ==
    /\ sent.handler = "process_format_selection"
    /\ sent.texts = <<"URL not found or expired">>
    /\ clast.op = "store_url"
    /\ now > TTL_SECONDS
    /\ data = <<>>

\* C24: the callback data built from a format id, which may hold ':', and a
\* token without ':' is parsed back into ("fmt", the format id, the token).
C24_ParseInvertsBuild ==
    parsed.done => parsed.out = << <<"fmt">>, parsed.format_id, parsed.url_id >>

\* A button whose format id holds two ':' and whose token is not empty has
\* been parsed.
C24_Witness ==
    /\ parsed.done
    /\ parsed.format_id = <<"video", ":", ":">>
    /\ parsed.url_id = <<"a", "b">>
    /\ Len(parsed.out) = 3

(***************************************************************************)
(* Properties of the capacity of the queue.                                *)
(***************************************************************************)

\* config.MAX_QUEUE_SIZE (default 50) and config.MAX_USER_TASKS (default 5),
\* scaled down.
MAX_QUEUE_SIZE == 2
MAX_USER_TASKS == 1

\* C25 as stated: the pending tasks never number more than MAX_QUEUE_SIZE
\* and the pending tasks of one chat never more than MAX_USER_TASKS.
C25_CapacityGuarded ==
    /\ Len(queue_items) <= MAX_QUEUE_SIZE
    /\ \A c \in Users : PendingOf(c) <= MAX_USER_TASKS

(***************************************************************************)
(* Properties of the orchestrator of a download.                           *)
(***************************************************************************)

\* The texts that tell the user of a failure.
FailureTexts ==
    {"Video Not Found", "File Too Large", "Unsupported Format", "Network Error",
     "File Too Large for Upload", "Download Failed", "Upload Failed"}

\* How many of the texts of a sequence are in a set.
Count(texts, S) == Cardinality({i \in DOMAIN texts : texts[i] \in S})

\* The failure texts the call has put before the user, as new messages or
\* as edits of the status message.
FailureNotices == Count(dl.messages, FailureTexts) + Count(dl.edits, FailureTexts)

C27_AdminNotified ==
    (dl.pc = "done" /\ ~dl.delivered /\ dl.raised # "Exception") => dl.admin >= 1

C29_ExpectedTooLargeFailsFast ==
    dl.expected > MAX_FILE_SIZE =>
        /\ dl.thread = "VideoTooLargeError"
        /\ dl.invoked = <<"extract_info">>
        /\ dl.written = <<>> /\ dl.files = <<>>
        /\ dl.documents = 0 /\ ~dl.delivered
        /\ dl.error = (IF dl.timed_out THEN "NetworkError" ELSE "VideoTooLargeError")

\* A call whose expected size was above the limit has ended: the user has
\* been told "File Too Large" and DownloadError has been raised.
C29_Witness ==
    /\ dl.expected > MAX_FILE_SIZE
    /\ dl.pc = "done"
    /\ dl.messages = <<"Download started", "File Too Large">>
    /\ dl.raised = "DownloadError"

\* C30: after a download that left files, a first file above MAX_FILE_SIZE
\* is deleted and the engine wrapper ends with VideoTooLargeError; a first
\* file of at most MAX_FILE_SIZE stays and the wrapper returns it.
C30_ActualSizeChecked ==
    (dl.engine = "ok" /\ dl.written # <<>> /\ dl.dir) =>
        IF dl.written[1] > MAX_FILE_SIZE
        THEN dl.thread = "VideoTooLargeError" /\ dl.files = Tail(dl.written)
        ELSE dl.thread = "ok" /\ dl.files = dl.written

\* A file just above the limit has been deleted, and a file at the limit has
\* not been looked at.
C30_Witness ==
    /\ dl.engine = "ok"
    /\ dl.written = <<MAX_FILE_SIZE + 1, MAX_FILE_SIZE>>
    /\ dl.files = <<MAX_FILE_SIZE>>
    /\ dl.thread = "VideoTooLargeError"
    /\ dl.dir

\* The engine's message mentions a phrase, in any case of the letters.
Mentions(message, phrase) == \E p \in message : LowerPhrase(p) = phrase

\* The kinds of failure of the taxonomy.
TaxonomyKinds ==
    {"VideoNotFoundError", "UnsupportedFormatError", "NetworkError",
     "VideoTooLargeError", "DownloadError"}

\* C31: the failure that leaves the engine wrapper is of one kind of the
\* taxonomy, fixed by what happened: a timeout gives NetworkError; an engine
\* error of extract_info gives VideoNotFoundError when it mentions "not
\* available" or "video not found", else UnsupportedFormatError when it
\* mentions "unsupported url" or "unsupported format", else NetworkError; an
\* engine error of the download step gives NetworkError; a size above the
\* limit gives VideoTooLargeError; anything else gives DownloadError.
C31_TaxonomyKinds ==
    /\ [](dl.thread \notin {"none", "ok"} => dl.thread \in TaxonomyKinds)
    /\ []((dl.pc = "error" /\ dl.thread # "none"
              /\ (dl.thread # "ok" \/ dl.timed_out)) =>
            dl.error = (IF dl.timed_out THEN "NetworkError" ELSE dl.thread))
    /\ [][dl'.invoked = Append(dl.invoked, "extract_info") =>
            \A outcome \in {"ok", "crash", "DownloadError"}, m \in InfoErrors,
               e \in ExpectedSizes :
                ExtractInfo(outcome, m, e) =>
                    dl'.thread =
                        (IF outcome = "crash" THEN "DownloadError"
                         ELSE IF outcome = "DownloadError"
                         THEN (IF Mentions(m, "not available")
                                   \/ Mentions(m, "video not found")
                               THEN "VideoNotFoundError"
                               ELSE IF Mentions(m, "unsupported url")
                                       \/ Mentions(m, "unsupported format")
                               THEN "UnsupportedFormatError"
                               ELSE "NetworkError")
                         ELSE IF e > MAX_FILE_SIZE THEN "VideoTooLargeError"
                         ELSE "none")]_vars
    /\ [][dl'.invoked = Append(dl.invoked, "download") =>
            \A outcome \in {"ok", "crash", "DownloadError"}, w \in Downloads :
                EngineDownload(outcome, w) =>
                    dl'.thread =
                        (IF outcome = "crash" THEN "DownloadError"
                         ELSE IF outcome = "DownloadError" THEN "NetworkError"
                         ELSE IF w = <<>> THEN "DownloadError"
                         ELSE IF w[1] > MAX_FILE_SIZE THEN "VideoTooLargeError"
                         ELSE "ok")]_vars

\* The wrapper has been left by the NetworkError of a timeout although the
\* thread ended with another kind.
C31_Witness ==
    /\ dl.pc = "error"
    /\ dl.timed_out
    /\ dl.thread = "VideoNotFoundError"
    /\ dl.error = "NetworkError"

\* C32 as stated: a task that carries a status_message_id gets no new status
\* message, its message is edited to "Download started"; a new status
\* message is sent only for a task without one (looked at when the status
\* step has gone through).
C32_StatusUpdatedInPlace ==
    dl.pc = "extract" =>
        IF dl.task_status_message_id # 0
        THEN /\ "Download started" \notin {dl.messages[i] : i \in DOMAIN dl.messages}
             /\ "Download started" \in {dl.edits[i] : i \in DOMAIN dl.edits}
        ELSE "Download started" \in {dl.messages[i] : i \in DOMAIN dl.messages}

(***************************************************************************)
(* Properties of the invites.                                              *)
(***************************************************************************)

\* C33 as stated: at most one use_invite call on a code returns True, and at
\* most one user is authorized through the code.
C33_InviteUsedOnce ==
    /\ Cardinality({c \in Calls : inv.calls[c].ret = "True"}) <= 1
    /\ Cardinality(inv.users) <= 1

(***************************************************************************)
(* Further properties of the queue.                                        *)
(***************************************************************************)

\* C34 as stated: under every interleaving of add_task, clear_user_tasks and
\* the worker's steps no worker loop ends with an exception (task_done never
\* raises), and when nothing is pending and no task is in flight,
\* is_processing is false and current_task is None.
C34_WorkerLoopNeverRaises ==
    /\ \A w \in DOMAIN workers : workers[w].pc # "failed"
    /\ (queue = <<>> /\ InFlight = {}) =>
           (~is_processing /\ current_task = NoTask)

\* C35: between the steps of add_task, clear_user_tasks and the worker, the
\* tracking list _queue_items and the FIFO queue hold the same task objects
\* in the same order.
C35_TrackingInStep == queue = queue_items

\* A task has been popped, another has been cleared, and a task is pending
\* in both the queue and the list.
C35_Witness ==
    /\ handed # <<>>
    /\ removed # {}
    /\ queue # <<>>
    /\ queue_items = queue

(***************************************************************************)
(* Further properties of the handlers.                                     *)
(***************************************************************************)

\* C36 as stated: when the handler that told its user "Starting download
\* now..." adds its task, is_processing is still false, as it was read, and
\* no task is pending ahead of the new one or in flight.
C36_StartingMeansIdle ==
    [][(/\ sel.pc = "edited"
        /\ sel' = NoSelection
        /\ sent.handler = "process_format_selection"
        /\ sent.texts = <<"Starting download now...">>)
       => (~is_processing /\ queue = <<>> /\ InFlight = {})]_vars

(***************************************************************************)
(* Further properties of the URL storage.                                  *)
(***************************************************************************)

C38_PendingOnly ==
    /\ Ids(queue) = (1..next_id) \ ({handed[i] : i \in DOMAIN handed} \cup removed)
    /\ \A c \in Chats :
           is_user_in_queue(c) <=> \E i \in DOMAIN queue : queue[i].chat_id = c
    /\ \A c \in Chats :
           (/\ InFlight # {}
            /\ current_task.chat_id = c
            /\ \A i \in DOMAIN queue : queue[i].chat_id # c) => ~is_user_in_queue(c)

\* A chat's only task is in flight while a task of another chat is pending:
\* the query is false for the first chat and true for the second.
C38_Witness ==
    /\ InFlight # {}
    /\ ~is_user_in_queue(current_task.chat_id)
    /\ \E c \in Chats : c # current_task.chat_id /\ is_user_in_queue(c)

(***************************************************************************)
(* Further properties of the downloader.                                   *)
(***************************************************************************)

\* C39 as stated: a result of the engine is accepted only when the task's
\* directory holds exactly one file: with no file or with more than one the
\* download step fails and no document is delivered.
C39_ExactlyOneFile ==
    /\ (dl.engine = "ok" /\ Len(dl.written) # 1) => dl.thread # "ok"
    /\ dl.delivered => Len(dl.written) = 1

====
